---- MODULE Spec2Model ----
(***************************************************************************)
(* Model of the two entry points of claude-mcp-quickstart:                 *)
(*   installer.py       MCPInstaller.run  (variant "installer")            *)
(*   advanced-setup.py  MCPQuickstart.run (variant "quickstart")           *)
(* The state is the part of the machine the two programs read and write    *)
(* (descriptor file, backup files, working directory, package manifest,    *)
(* workspace, clock) plus the fields and locals of the running object.     *)
(***************************************************************************)
EXTENDS Integers, Sequences, FiniteSets, TLC

\* ------------------------------------------------------------------ bounds
\* Number of runs of an entry point in one behaviour of SpecRuns.
MaxRuns == 2
\* Subprocess calls of one run that raise (launch error, timeout).
MaxRaises == 1

\* ------------------------------------------------------------ value domains
\* Python None / JSON null.
NoneVal == "<None>"
\* os.environ lookup of a variable that is not set.
Unset == "<unset>"

Falsy(v) == v \in {NoneVal, ""}

\* dict.get(key, default): the default is used only when the key is missing.
DictGet(d, k, default) == IF k \in DOMAIN d THEN d[k] ELSE default

\* os.environ.get(name, default)
EnvGet(env, name, default) == IF env[name] = Unset THEN default ELSE env[name]

\* os.environ.get(name): None when the variable is not set.
EnvLookup(env, name) == EnvGet(env, name, NoneVal)

EmptyFcn == [x \in {} |-> ""]

Range(s) == {s[i] : i \in DOMAIN s}

\* projects[:n]
Take(s, n) == SubSeq(s, 1, IF Len(s) < n THEN Len(s) ELSE n)

\* ------------------------------------------------------------- file contents
Absent == [kind |-> "absent", body |-> EmptyFcn]
\* A file opened with mode 'w' and not yet written.
Truncated == [kind |-> "empty", body |-> EmptyFcn]
\* A file holding a prefix of the text that was being written.
Partial == [kind |-> "partial", body |-> EmptyFcn]
\* A descriptor the user had before the first run (hand edited).
UserFile == [kind |-> "user", body |-> EmptyFcn]

\* An existence test that is always true.
ExistsAlways(f) == TRUE

\* path.exists()
Exists(f) == f.kind # "absent"

\* json.dump(config, f, indent=2) / json.dumps(config, indent=2): the text of
\* the descriptor; None values are written as null.
JsonText(config) == [kind |-> "json", body |-> config]

\* A copy that creates the destination and copies nothing into it.
Copy2Empty(src) == Truncated

\* shutil.copy2(src, dst): the destination holds the source's bytes.
Copy2(src) == src

\* --------------------------------------------------------------- catalogs
\* A path or a package identifier: what precedes the last '/' and what
\* follows it. Strings that are not paths have an empty parent.
Path(parent, name) == [parent |-> parent, name |-> name]
Str(s) == Path("", s)

Pkg(n) == Path("@modelcontextprotocol", n)

\* server.split('/')[-1]
LastSegment(pkg) == pkg.name

\* installer.py: servers
InstallerServers ==
    << Pkg("server-filesystem"), Pkg("server-github"),
       Pkg("server-brave-search"), Pkg("server-memory") >>

\* advanced-setup.py: servers
QuickServers ==
    << [name |-> "filesystem",   package |-> Pkg("server-filesystem"),   required |-> TRUE],
       [name |-> "github",       package |-> Pkg("server-github"),       required |-> TRUE],
       [name |-> "brave-search", package |-> Pkg("server-brave-search"), required |-> TRUE],
       [name |-> "memory",       package |-> Pkg("server-memory"),       required |-> TRUE],
       [name |-> "puppeteer",    package |-> Pkg("server-puppeteer"),    required |-> FALSE],
       [name |-> "sqlite",       package |-> Pkg("server-sqlite"),       required |-> FALSE] >>

AllPackages == {QuickServers[i].package.name : i \in DOMAIN QuickServers}

\* The commands other than npm install, and the file operations, of a run.
Commands == {"node", "git", "install dependency", "npm init"}
FileOps == {"copy2", "open", "write"}
Fallible == AllPackages \cup Commands \cup FileOps

\* ------------------------------------------------------- credential sources
CredKeys == {"github_token", "brave_key", "openai_key", "anthropic_key"}

\* advanced-setup.py: env_mappings
EnvMappings ==
    [github_token  |-> <<"GITHUB_TOKEN", "GH_TOKEN", "GITHUB_PERSONAL_ACCESS_TOKEN">>,
     brave_key     |-> <<"BRAVE_API_KEY", "BRAVE_SEARCH_KEY">>,
     openai_key    |-> <<"OPENAI_API_KEY">>,
     anthropic_key |-> <<"ANTHROPIC_API_KEY", "CLAUDE_API_KEY">>]

EnvNames == UNION {Range(EnvMappings[k]) : k \in CredKeys}

\* advanced-setup.py: config_files
ConfigFiles == <<".bashrc", ".zshrc", ".env", ".config/gh/hosts.yml">>

\* advanced-setup.py: patterns (the keys that have a KEY=value pattern)
PatternKeys == {"github_token", "brave_key", "openai_key"}

\* The result of re.search(pattern, content) for one key: no match, or the
\* captured group, which is one or more non-blank characters: a core text
\* with or without quote characters around it.
NoMatch == [found |-> FALSE, quoted |-> FALSE, core |-> ""]
Match(quoted, core) == [found |-> TRUE, quoted |-> quoted, core |-> core]

\* match.group(1).strip('"\''): the quote characters at both ends are removed.
StripQuotes(m) == m.core

MissingFile == [state |-> "missing", match |-> [k \in PatternKeys |-> NoMatch]]
UnreadableFile == [state |-> "unreadable", match |-> [k \in PatternKeys |-> NoMatch]]
TextFile(m) == [state |-> "text", match |-> m]

\* ------------------------------------------------------------ directories
StartDir == "<launch directory>"
McpDir == "~/.mcp-servers"
WorkspaceDir == Path("~", "claude-mcp-workspace")

\* str(mcp_dir / "node_modules" / "@modelcontextprotocol" / server / "dist" / "index.js")
DistIndexJs(server) == Path(McpDir, server)

\* --------------------------------------------------------------- logging
Event(kind, subject) == [kind |-> kind, subject |-> subject]

NoLogs == [errors |-> <<>>, warnings |-> <<>>]

\* log(message, level) of both classes: ERROR messages are appended to
\* self.errors; advanced-setup.py also appends WARNING messages to self.warnings.
Log(logs, level, ev) ==
    IF level = "ERROR" THEN [logs EXCEPT !.errors = Append(@, ev)]
    ELSE IF level = "WARNING" THEN [logs EXCEPT !.warnings = Append(@, ev)]
    ELSE logs

\* MCPQuickstart.run_command: the events it logs for an outcome of the
\* subprocess ("ok": exit 0, "nonzero": another exit code, "raise": the call
\* raised, e.g. subprocess.TimeoutExpired).
RunCommandLog(logs, out, cmd, isVerbose) ==
    IF out = "raise" THEN Log(logs, "ERROR", Event("Command execution failed", cmd))
    ELSE IF out = "nonzero" /\ isVerbose
         THEN Log(logs, "WARNING", Event("Command failed", cmd))
         ELSE logs

\* MCPQuickstart.run_command: the success flag it returns.
RunCommandOk(out) == out = "ok"

\* ------------------------------------------------ credential detection
InitialKeys == [k \in CredKeys |-> NoneVal]

RECURSIVE FirstTruthyAlias(_, _, _)
\* The inner loop over env_vars: the first alias whose value is truthy.
FirstTruthyAlias(env, aliases, i) ==
    IF i > Len(aliases) THEN NoneVal
    ELSE IF ~Falsy(EnvLookup(env, aliases[i])) THEN env[aliases[i]]
    ELSE FirstTruthyAlias(env, aliases, i + 1)

\* detect_api_keys, the loop over env_mappings.
KeysAfterEnv(ks, env) ==
    [k \in CredKeys |->
        LET v == FirstTruthyAlias(env, EnvMappings[k], 1)
        IN  IF v # NoneVal THEN v ELSE ks[k]]

\* The output of `git config --global github.token`: the exit outcome and
\* the printed text, a core with or without white space around it.
GitResult(out, padded, core) == [out |-> out, padded |-> padded, core |-> core]

\* token.strip()
StripSpace(g) == g.core

\* detect_api_keys, the git config block; g is consulted only when the
\* key is still unset.
KeysAfterGit(ks, g) ==
    IF Falsy(ks["github_token"]) /\ RunCommandOk(g.out) /\ StripSpace(g) # ""
    THEN [ks EXCEPT !["github_token"] = StripSpace(g)]
    ELSE ks

\* A scan in which a later match replaces a value already found.
KeysAfterFileLast(ks, f) ==
    IF f.state # "text" THEN ks
    ELSE [k \in CredKeys |->
            IF k \in PatternKeys /\ f.match[k].found
            THEN StripQuotes(f.match[k])
            ELSE ks[k]]

\* detect_api_keys, one iteration of the loop over config_files.
KeysAfterFile(ks, f) ==
    IF f.state # "text" THEN ks
    ELSE [k \in CredKeys |->
            IF k \in PatternKeys /\ Falsy(ks[k]) /\ f.match[k].found
            THEN StripQuotes(f.match[k])
            ELSE ks[k]]

\* MCPInstaller.detect_api_keys
InstallerKeys(env) ==
    [github |-> EnvGet(env, "GITHUB_TOKEN", "REPLACE_WITH_GITHUB_TOKEN"),
     brave  |-> EnvGet(env, "BRAVE_API_KEY", "REPLACE_WITH_BRAVE_KEY")]

\* ------------------------------------------------------ config synthesis
ServerKey(n) == [prefix |-> "", name |-> n]
\* f"project-{project_name}"
ProjectKey(n) == [prefix |-> "project-", name |-> n]

EmptyConfig == [k \in {} |-> [command |-> ""]]

\* config["mcpServers"][key] = entry
Put(f, k, v) == [x \in DOMAIN f \cup {k} |-> IF x = k THEN v ELSE f[x]]

\* MCPInstaller.generate_config
InstallerTemplates(ks) ==
    [filesystem |->
        [command |-> "node",
         args |-> <<DistIndexJs("server-filesystem"), WorkspaceDir>>],
     github |->
        [command |-> "npx",
         args |-> <<Str("-y"), Pkg("server-github")>>,
         env |-> [GITHUB_PERSONAL_ACCESS_TOKEN |-> ks.github]],
     brave_search |->
        [command |-> "npx",
         args |-> <<Str("-y"), Pkg("server-brave-search")>>,
         env |-> [BRAVE_API_KEY |-> ks.brave]],
     memory |->
        [command |-> "node",
         args |-> <<DistIndexJs("server-memory")>>]]

GenerateConfig(installed_servers, env) ==
    LET t == InstallerTemplates(InstallerKeys(env))
        has(s) == s \in Range(installed_servers)
        c1 == IF has("server-filesystem")
              THEN Put(EmptyConfig, ServerKey("filesystem"), t.filesystem) ELSE EmptyConfig
        c2 == IF has("server-github")
              THEN Put(c1, ServerKey("github"), t.github) ELSE c1
        c3 == IF has("server-brave-search")
              THEN Put(c2, ServerKey("brave-search"), t.brave_search) ELSE c2
    IN  IF has("server-memory")
        THEN Put(c3, ServerKey("memory"), t.memory) ELSE c3

\* MCPQuickstart.generate_claude_config: server_configs
ServerConfigs(api_keys) ==
    LET t == [n \in {"filesystem"} |->
                 [command |-> "node",
                  args |-> <<DistIndexJs("server-filesystem"), WorkspaceDir>>,
                  env |-> EmptyFcn]]
        g == Put(t, "github",
                 [command |-> "npx",
                  args |-> <<Str("-y"), Pkg("server-github")>>,
                  env |-> [GITHUB_PERSONAL_ACCESS_TOKEN |->
                             DictGet(api_keys, "github_token", "PLACEHOLDER_GITHUB_TOKEN")]])
        b == Put(g, "brave-search",
                 [command |-> "npx",
                  args |-> <<Str("-y"), Pkg("server-brave-search")>>,
                  env |-> [BRAVE_API_KEY |->
                             DictGet(api_keys, "brave_key", "PLACEHOLDER_BRAVE_KEY")]])
        m == Put(b, "memory",
                 [command |-> "node",
                  args |-> <<DistIndexJs("server-memory")>>,
                  env |-> EmptyFcn])
    IN  Put(m, "sqlite",
            [command |-> "node",
             args |-> <<DistIndexJs("server-sqlite"), Path("~/claude-mcp-workspace", "data.db")>>,
             env |-> EmptyFcn])

RECURSIVE AddServers(_, _, _, _)
\* The loop "for server in installed_servers".
AddServers(config, installed_servers, templates, i) ==
    IF i > Len(installed_servers) THEN config
    ELSE AddServers(
            IF installed_servers[i] \in DOMAIN templates
            THEN Put(config, ServerKey(installed_servers[i]), templates[installed_servers[i]])
            ELSE config,
            installed_servers, templates, i + 1)

\* The project entry written for one detected project.
ProjectEntry(project) ==
    [command |-> "node",
     args |-> <<DistIndexJs("server-filesystem"), project>>,
     env |-> EmptyFcn]

RECURSIVE AddProjects(_, _, _)
\* The loop "for i, project in enumerate(projects[:3], 1)".
AddProjects(config, ps, i) ==
    IF i > Len(ps) THEN config
    ELSE AddProjects(Put(config, ProjectKey(ps[i].name), ProjectEntry(ps[i])), ps, i + 1)

\* Project entries whenever a project was found.
ProjectsWantedAlways(projects, installed_servers) == projects # <<>>

\* Which installed servers make the project entries appear.
ProjectsWanted(projects, installed_servers) ==
    projects # <<>> /\ "filesystem" \in Range(installed_servers)

\* MCPQuickstart.generate_claude_config
GenerateClaudeConfig(installed_servers, projects, api_keys) ==
    LET base == AddServers(EmptyConfig, installed_servers, ServerConfigs(api_keys), 1)
    IN  IF ProjectsWanted(projects, installed_servers)
        THEN AddProjects(base, Take(projects, 3), 1)
        ELSE base

\* ------------------------------------------------------------------ state
VARIABLES
    \* the environment the programs read
    environ,      \* os.environ, restricted to the credential variables
    gitOut,       \* what `git config --global github.token` answers
    dotfiles,     \* the four config_files, in list order
    flaky,        \* names of the packages, commands and file operations that can fail
    maxRuns,      \* how many times an entry point is started
    \* the machine
    target,       \* claude_desktop_config.json
    backups,      \* the backup files beside it: name -> content
    cwd,          \* the process's current working directory
    pkgJson,      \* ~/.mcp-servers/package.json exists
    workspace,    \* ~/claude-mcp-workspace was created
    clock,        \* int(time.time())
    \* the running object and the locals of run()
    variant, pc, verbose, projects, keys, installed, idx, logs,
    original_dir, config, result, exitCode, raises,
    \* observations of the current run and of the runs so far
    runs,         \* entry points started so far
    preRun,       \* content of target when the current run started
    attempts,     \* install invocations of the current run, in order
    bk,           \* the backup step of the current run
    entryCwd,     \* cwd when the install operation was entered
    probe,        \* what the runtime probe of the current run reported
    backupLog     \* every backup copy completed so far

inputs == <<environ, gitOut, dotfiles, flaky, maxRuns>>
machine == <<target, backups, cwd, pkgJson, workspace, clock>>
object == <<variant, pc, verbose, projects, keys, installed, idx, logs,
            original_dir, config, result, exitCode, raises>>
observed == <<runs, preRun, attempts, bk, entryCwd, probe, backupLog>>
vars == <<inputs, machine, object, observed>>

Variants == {"installer", "quickstart"}

\* -------------------------------------------------------------- inputs
Token(src) == [GITHUB_TOKEN |-> "ghp_env", GH_TOKEN |-> "ghp_env_gh",
               GITHUB_PERSONAL_ACCESS_TOKEN |-> "ghp_env_pat",
               BRAVE_API_KEY |-> "bsa_env", BRAVE_SEARCH_KEY |-> "bsa_env_search",
               OPENAI_API_KEY |-> "sk_env", ANTHROPIC_API_KEY |-> "ant_env",
               CLAUDE_API_KEY |-> "ant_env_claude"][src]

NoEnviron == [n \in EnvNames |-> Unset]
NoGit == GitResult("nonzero", FALSE, "")
NoDotfiles == [i \in DOMAIN ConfigFiles |-> MissingFile]

\* Environments of the full runs: nothing set anywhere; both primary
\* variables set; the github variable set but empty and an empty quoted
\* assignment in .env.
RunEnvirons ==
    { <<NoEnviron, NoGit, NoDotfiles>>,
      <<[NoEnviron EXCEPT !["GITHUB_TOKEN"] = Token("GITHUB_TOKEN"),
                          !["BRAVE_API_KEY"] = Token("BRAVE_API_KEY")],
        NoGit, NoDotfiles>>,
      <<[NoEnviron EXCEPT !["GITHUB_TOKEN"] = ""],
        NoGit,
        [NoDotfiles EXCEPT ![3] =
            TextFile([k \in PatternKeys |->
                        IF k = "github_token" THEN Match(TRUE, "") ELSE NoMatch])]>> }

\* auto_detect_projects finds git repositories below the search paths.
ProjectLists ==
    { <<>>,
      << Path("~/Documents", "app"), Path("~/Projects", "site"),
         Path("~/dev", "app"), Path("~/dev", "tool") >> }

\* No directory: the install operation was not entered in this run.
NoDir == "<none>"

NoName == [stem |-> "", tag |-> 0]
NoBackup == [status |-> "none", name |-> NoName]

InitMachine ==
    /\ target \in {Absent, UserFile}
    /\ backups = [n \in {} |-> Absent]
    /\ cwd = StartDir
    /\ pkgJson = FALSE
    /\ workspace = FALSE
    /\ clock = 0

InitObject ==
    /\ variant \in Variants
    /\ pc \in {"idle", "q_detect_env"}
    /\ runs = (IF pc = "idle" THEN 0 ELSE 1)
    /\ verbose = FALSE
    /\ projects = <<>>
    /\ keys = InitialKeys
    /\ installed = <<>>
    /\ idx = 0
    /\ logs = NoLogs
    /\ original_dir = StartDir
    /\ config = EmptyConfig
    /\ result = "none"
    /\ exitCode = 0
    /\ raises = 0
    /\ preRun = target
    /\ attempts = <<>>
    /\ bk = NoBackup
    /\ entryCwd = NoDir
    /\ probe = "none"
    /\ backupLog = <<>>

\* One run of an entry point, every install free to fail.
Init ==
    /\ \E e \in RunEnvirons : environ = e[1] /\ gitOut = e[2] /\ dotfiles = e[3]
    /\ flaky = Fallible
    /\ maxRuns = 1
    /\ InitMachine
    /\ InitObject
    /\ variant = "installer"
    /\ pc = "idle"

\* ----------------------------------------------------------- entry points
\* The clock when the next process starts: the first one starts at 0, a
\* later one in the same second as the one before or in the next.
StartTimes == IF runs = 0 THEN {clock} ELSE {clock, clock + 1}

\* main() of either file constructing the object and calling run(); a new
\* process starts in the directory it is launched from.
StartRun(v) ==
    /\ pc \in {"idle", "done"}
    /\ runs < maxRuns
    /\ runs' = runs + 1
    /\ clock' \in StartTimes
    /\ variant' = v
    /\ pc' = IF v = "installer" THEN "i_check" ELSE "q_deps"
    /\ verbose' \in (IF v = "installer" THEN {FALSE} ELSE BOOLEAN)
    /\ projects' = <<>>
    /\ keys' = InitialKeys
    /\ installed' = <<>>
    /\ idx' = 0
    /\ logs' = NoLogs
    /\ original_dir' = StartDir
    /\ config' = EmptyConfig
    /\ result' = "running"
    /\ exitCode' = 0
    /\ raises' = 0
    /\ cwd' = StartDir
    /\ preRun' = target
    /\ attempts' = <<>>
    /\ bk' = NoBackup
    /\ entryCwd' = NoDir
    /\ probe' = "none"
    /\ UNCHANGED <<inputs, target, backups, pkgJson, workspace, backupLog>>

\* installer.py main() with --test: nothing is installed.
MainTest ==
    /\ pc \in {"idle", "done"}
    /\ runs < maxRuns
    /\ runs' = runs + 1
    /\ variant' = "installer"
    /\ pc' = "done"
    /\ result' = "test"
    /\ exitCode' = 0
    /\ verbose' = FALSE
    /\ projects' = <<>>
    /\ keys' = InitialKeys
    /\ installed' = <<>>
    /\ idx' = 0
    /\ logs' = NoLogs
    /\ original_dir' = StartDir
    /\ config' = EmptyConfig
    /\ raises' = 0
    /\ cwd' = StartDir
    /\ preRun' = target
    /\ attempts' = <<>>
    /\ bk' = NoBackup
    /\ entryCwd' = NoDir
    /\ probe' = "none"
    /\ UNCHANGED <<inputs, target, backups, pkgJson, workspace, clock, backupLog>>

\* How a run ends: run() returned `value`, or an exception left it.
\* installer.py main(): "return 0 if success else 1"; advanced-setup.py main()
\* ignores what run() returns; an uncaught exception ends python with status 1.
ExitStatus(v, value) ==
    IF value = "raised" THEN 1
    ELSE IF v = "installer" THEN (IF value = "True" THEN 0 ELSE 1)
    ELSE 0

Finish(value) ==
    /\ pc' = "done"
    /\ result' = value
    /\ exitCode' = ExitStatus(variant, value)

\* ------------------------------------------------- outcomes of the outside
\* How a subprocess call can end in this state: exit code 0, another exit
\* code, or the call raises (it cannot be launched, it times out).
CmdOutcomes(what) ==
    {"ok"} \cup (IF what \in flaky THEN {"nonzero"} ELSE {})
           \cup (IF what \in flaky /\ raises < MaxRaises THEN {"raise"} ELSE {})

\* How one `npm install <package>` can end in this state.
NpmOutcomes(pkgName) == CmdOutcomes(pkgName)

\* How a command whose failure is never an exception here can end.
ExitOutcomes(what) == {"ok"} \cup (IF what \in flaky THEN {"nonzero"} ELSE {})

\* A file operation completes or raises OSError.
IoOutcomes(what) == {"ok"} \cup (IF what \in flaky THEN {"fail"} ELSE {})

Raised(out) == IF out = "raise" THEN raises + 1 ELSE raises

\* ------------------------------------------------------------- backups
\* int(hashlib.md5(str(config_file).encode()).hexdigest()[:8], 16): a function
\* of the path alone; the path of the descriptor is the only one hashed.
Md5Prefix(path) == 0

ConfigFile == Path("<claude config dir>", "claude_desktop_config.json")

\* installer.py: f"claude_config_backup_{int(time.time())}.json"
\* advanced-setup.py: config_file.with_suffix(f".backup.{...md5...}")
BackupName(v, now) ==
    IF v = "installer"
    THEN [stem |-> "claude_config_backup_", tag |-> now]
    ELSE [stem |-> "claude_desktop_config.backup.", tag |-> Md5Prefix(ConfigFile)]

\* backup_config / backup_existing_config: nothing to do without a
\* descriptor; otherwise copy2 to the backup name, which raises on failure
\* and may leave a partial destination behind.
BackupStep(next) ==
    LET name == BackupName(variant, clock) IN
    IF ~Exists(target)
    THEN /\ pc' = next
         /\ UNCHANGED <<backups, bk, backupLog, result, exitCode>>
    ELSE \E io \in IoOutcomes("copy2") :
            IF io = "ok"
            THEN /\ backups' = Put(backups, name, Copy2(target))
                 /\ bk' = [status |-> "ok", name |-> name]
                 /\ backupLog' = Append(backupLog,
                        [run |-> runs, name |-> name, content |-> target])
                 /\ pc' = next
                 /\ UNCHANGED <<result, exitCode>>
            ELSE /\ backups' \in {backups, Put(backups, name, Partial)}
                 /\ bk' = [status |-> "failed", name |-> name]
                 /\ UNCHANGED backupLog
                 /\ Finish("raised")

\* ---------------------------------------------------------- installer.py
\* MCPInstaller.check_node
CheckNode(out) == out = "ok"

\* run(): the Node.js gate.
ICheckNode ==
    /\ pc = "i_check"
    /\ \E out \in CmdOutcomes("node") :
          /\ probe' = IF CheckNode(out) THEN "present" ELSE "absent"
          /\ IF CheckNode(out)
             THEN /\ pc' = "i_backup"
                  /\ UNCHANGED <<logs, result, exitCode>>
             ELSE /\ logs' = Log(logs, "ERROR", Event("Node.js is required", "node"))
                  /\ Finish("False")
    /\ UNCHANGED <<inputs, machine, variant, verbose, projects, keys, installed, idx,
                   original_dir, config, raises,
                   runs, preRun, attempts, bk, entryCwd, backupLog>>

\* run(): self.backup_config()
IBackup ==
    /\ pc = "i_backup"
    /\ BackupStep("i_install")
    /\ UNCHANGED <<inputs, target, cwd, pkgJson, workspace, clock,
                   variant, verbose, projects, keys, installed, idx, logs,
                   original_dir, config, raises,
                   runs, preRun, attempts, entryCwd, probe>>

\* The finally clause of install_servers.
FinallyCwd(original, current) == original

\* install_servers up to the loop: mkdir, remember the directory, chdir,
\* npm init when there is no package.json. subprocess.run raises when npm
\* cannot be launched; the finally clause runs and the exception leaves run().
IInstallEnter ==
    /\ pc = "i_install"
    /\ original_dir' = cwd
    /\ entryCwd' = cwd
    /\ installed' = <<>>
    /\ idx' = 1
    /\ IF pkgJson
       THEN /\ cwd' = McpDir
            /\ pc' = "i_install_loop"
            /\ UNCHANGED <<pkgJson, raises, result, exitCode>>
       ELSE \E out \in CmdOutcomes("npm init") :
               /\ raises' = Raised(out)
               /\ pkgJson' = (out = "ok")
               /\ IF out = "raise"
                  THEN /\ cwd' = FinallyCwd(cwd, McpDir)
                       /\ Finish("raised")
                  ELSE /\ cwd' = McpDir
                       /\ pc' = "i_install_loop"
                       /\ UNCHANGED <<result, exitCode>>
    /\ UNCHANGED <<inputs, target, backups, workspace, clock,
                   variant, verbose, projects, keys, logs, config,
                   runs, preRun, attempts, bk, probe, backupLog>>

\* What the loop body of install_servers does with the server's name and the
\* events it logs for an exit code.
IInstalled(list, server, out) ==
    IF out = "ok" THEN Append(list, LastSegment(server)) ELSE list

IInstallLog(l, server, out) ==
    IF out = "ok" THEN l
    ELSE Log(l, "ERROR", Event("Failed to install", LastSegment(server)))

\* One iteration of the loop of install_servers.
IInstallAttempt ==
    /\ pc = "i_install_loop"
    /\ idx <= Len(InstallerServers)
    /\ LET server == InstallerServers[idx] IN
       \E out \in NpmOutcomes(LastSegment(server)) :
          /\ attempts' = Append(attempts, [name |-> LastSegment(server), out |-> out])
          /\ raises' = Raised(out)
          /\ IF out = "raise"
             THEN /\ cwd' = FinallyCwd(original_dir, cwd)
                  /\ Finish("raised")
                  /\ UNCHANGED <<installed, idx, logs>>
             ELSE /\ installed' = IInstalled(installed, server, out)
                  /\ logs' = IInstallLog(logs, server, out)
                  /\ idx' = idx + 1
                  /\ UNCHANGED <<cwd, pc, result, exitCode>>
    /\ UNCHANGED <<inputs, target, backups, pkgJson, workspace, clock,
                   variant, verbose, projects, keys, original_dir, config,
                   runs, preRun, bk, entryCwd, probe, backupLog>>

\* install_servers returns `installed` through the finally clause; run()
\* stops when nothing was installed, otherwise generates the configuration.
IInstallReturn ==
    /\ pc = "i_install_loop"
    /\ idx > Len(InstallerServers)
    /\ cwd' = FinallyCwd(original_dir, cwd)
    /\ IF installed = <<>>
       THEN /\ logs' = Log(logs, "ERROR", Event("No servers installed successfully", ""))
            /\ Finish("False")
            /\ UNCHANGED config
       ELSE /\ config' = GenerateConfig(installed, environ)
            /\ pc' = "i_write"
            /\ UNCHANGED <<logs, result, exitCode>>
    /\ UNCHANGED <<inputs, target, backups, pkgJson, workspace, clock,
                   variant, verbose, projects, keys, installed, idx,
                   original_dir, raises, observed>>

\* write_config: open(self.claude_config, 'w') truncates the file.
IWriteOpen ==
    /\ pc = "i_write"
    /\ \E io \in IoOutcomes("open") :
          IF io = "ok"
          THEN /\ target' = Truncated
               /\ pc' = "i_write_dump"
               /\ UNCHANGED <<result, exitCode>>
          ELSE /\ UNCHANGED target
               /\ Finish("raised")
    /\ UNCHANGED <<inputs, backups, cwd, pkgJson, workspace, clock,
                   variant, verbose, projects, keys, installed, idx, logs,
                   original_dir, config, raises, observed>>

\* write_config: json.dump(config, f, indent=2) into the open file.
IWriteDump ==
    /\ pc = "i_write_dump"
    /\ \E io \in IoOutcomes("write") :
          IF io = "ok"
          THEN /\ target' = JsonText(config)
               /\ pc' = "i_workspace"
               /\ UNCHANGED <<result, exitCode>>
          ELSE /\ target' \in {Truncated, Partial}
               /\ Finish("raised")
    /\ UNCHANGED <<inputs, backups, cwd, pkgJson, workspace, clock,
                   variant, verbose, projects, keys, installed, idx, logs,
                   original_dir, config, raises, observed>>

\* What run() returns after the final report.
IReturnValue(l) == IF Len(l.errors) = 0 THEN "True" ELSE "False"

\* create_workspace, the final report and the return of run().
IFinish ==
    /\ pc = "i_workspace"
    /\ workspace' = TRUE
    /\ Finish(IReturnValue(logs))
    /\ UNCHANGED <<inputs, target, backups, cwd, pkgJson, clock,
                   variant, verbose, projects, keys, installed, idx, logs,
                   original_dir, config, raises, observed>>

NextInstaller ==
    \/ ICheckNode
    \/ IBackup
    \/ IInstallEnter
    \/ IInstallAttempt
    \/ IInstallReturn
    \/ IWriteOpen
    \/ IWriteDump
    \/ IFinish

\* ------------------------------------------------------ advanced-setup.py
OsTypes == {"Darwin", "Linux", "Windows"}

\* f"install_{self.os_type.lower()}"
InstallKey(os) ==
    CASE os = "Darwin" -> "install_darwin"
      [] os = "Linux" -> "install_linux"
      [] os = "Windows" -> "install_windows"

\* check_dependencies: the install commands each entry of deps has.
DepInstallKeys == {"install_mac", "install_linux", "install_windows"}

\* cmds.get(f"install_{...}", "") is a non-empty command.
HasInstallCmd(os) == InstallKey(os) \in DepInstallKeys

\* check_dependencies, one iteration of the loop over deps: the check, and
\* when it fails the warning and the install command of the platform.
DepLogs(l, dep, out, os, bootOut, isVerbose) ==
    LET l1 == RunCommandLog(l, out, dep, isVerbose) IN
    IF RunCommandOk(out) THEN l1
    ELSE LET l2 == Log(l1, "WARNING", Event("Installing", dep)) IN
         IF HasInstallCmd(os) THEN RunCommandLog(l2, bootOut, dep, isVerbose) ELSE l2

\* What the probe `node --version` told the run.
ProbeResult(out) == IF RunCommandOk(out) THEN "present" ELSE "absent"

\* run() step 1: check_dependencies(); run() goes on whatever it finds.
QCheckDependencies ==
    /\ pc = "q_deps"
    /\ \E os \in OsTypes, node \in CmdOutcomes("node"), git \in ExitOutcomes("git"),
          boot \in ExitOutcomes("install dependency") :
          /\ logs' = DepLogs(DepLogs(logs, "node", node, os, boot, verbose),
                             "git", git, os, boot, verbose)
          /\ raises' = Raised(node)
          /\ probe' = ProbeResult(node)
    /\ pc' = "q_projects"
    /\ UNCHANGED <<inputs, machine, variant, verbose, projects, keys, installed, idx,
                   original_dir, config, result, exitCode,
                   runs, preRun, attempts, bk, entryCwd, backupLog>>

\* run() step 2: auto_detect_projects() returns at most five projects.
QProjects ==
    /\ pc = "q_projects"
    /\ \E found \in ProjectLists : projects' = Take(found, 5)
    /\ pc' = "q_detect_env"
    /\ UNCHANGED <<inputs, machine, variant, verbose, keys, installed, idx, logs,
                   original_dir, config, result, exitCode, raises, observed>>

\* detect_api_keys: the environment variables.
QDetectEnv ==
    /\ pc = "q_detect_env"
    /\ keys' = KeysAfterEnv(InitialKeys, environ)
    /\ pc' = "q_detect_git"
    /\ UNCHANGED <<inputs, machine, variant, verbose, projects, installed, idx, logs,
                   original_dir, config, result, exitCode, raises, observed>>

\* detect_api_keys: git config, asked only while the github token is unset.
QDetectGit ==
    /\ pc = "q_detect_git"
    /\ keys' = KeysAfterGit(keys, gitOut)
    /\ IF Falsy(keys["github_token"])
       THEN /\ logs' = RunCommandLog(logs, gitOut.out, "git config", verbose)
            /\ raises' = Raised(gitOut.out)
       ELSE UNCHANGED <<logs, raises>>
    /\ idx' = 1
    /\ pc' = "q_detect_files"
    /\ UNCHANGED <<inputs, machine, variant, verbose, projects, installed,
                   original_dir, config, result, exitCode, observed>>

\* detect_api_keys: one of the config files, in list order.
QDetectFile ==
    /\ pc = "q_detect_files"
    /\ idx <= Len(ConfigFiles)
    /\ keys' = KeysAfterFile(keys, dotfiles[idx])
    /\ idx' = idx + 1
    /\ pc' = IF idx = Len(ConfigFiles) THEN "q_backup" ELSE pc
    /\ UNCHANGED <<inputs, machine, variant, verbose, projects, installed, logs,
                   original_dir, config, result, exitCode, raises, observed>>

\* run() step 3: keys_found and the level it is logged at.
KeysFound(ks) == Cardinality({k \in DOMAIN ks : ~Falsy(ks[k])})

KeysFoundLog(l, ks) ==
    Log(l, IF KeysFound(ks) # 0 THEN "SUCCESS" ELSE "WARNING", Event("Found API keys", ""))

\* run() steps 3 and 4: the report of the keys, backup_existing_config().
QBackup ==
    /\ pc = "q_backup"
    /\ logs' = KeysFoundLog(logs, keys)
    /\ BackupStep("q_install")
    /\ UNCHANGED <<inputs, target, cwd, pkgJson, workspace, clock,
                   variant, verbose, projects, keys, installed, idx,
                   original_dir, config, raises,
                   runs, preRun, attempts, entryCwd, probe>>

\* install_mcp_servers up to the loop: mkdir, chdir, npm init when there is
\* no package.json. The directory it came from is not remembered.
QInstallEnter ==
    /\ pc = "q_install"
    /\ entryCwd' = cwd
    /\ cwd' = McpDir
    /\ installed' = <<>>
    /\ idx' = 1
    /\ IF pkgJson
       THEN UNCHANGED <<pkgJson, raises, logs>>
       ELSE \E out \in CmdOutcomes("npm init") :
               /\ raises' = Raised(out)
               /\ pkgJson' = RunCommandOk(out)
               /\ logs' = RunCommandLog(logs, out, "npm init", verbose)
    /\ pc' = "q_install_loop"
    /\ UNCHANGED <<inputs, target, backups, workspace, clock,
                   variant, verbose, projects, keys, original_dir, config,
                   result, exitCode, runs, preRun, attempts, bk, probe, backupLog>>

\* Every failed install logged as an error.
QFailLevelStrict(required) == "ERROR"

\* The level a failed install is logged at.
QFailLevel(required) == IF required THEN "ERROR" ELSE "WARNING"

\* A loop body that records the server whatever the exit code.
QInstalledAlways(list, server, out) == Append(list, server.name)

\* The loop body of install_mcp_servers after run_command returned.
QInstalled(list, server, out) ==
    IF RunCommandOk(out) THEN Append(list, server.name) ELSE list

QInstallLog(l, server, out) ==
    IF RunCommandOk(out) THEN l
    ELSE Log(l, QFailLevel(server.required),
             Event(IF server.required THEN "Failed to install required server"
                   ELSE "Optional server skipped", server.name))

\* One iteration of the loop of install_mcp_servers.
QInstallAttempt ==
    /\ pc = "q_install_loop"
    /\ idx <= Len(QuickServers)
    /\ LET server == QuickServers[idx] IN
       \E out \in NpmOutcomes(LastSegment(server.package)) :
          /\ attempts' = Append(attempts, [name |-> server.name, out |-> out])
          /\ raises' = Raised(out)
          /\ installed' = QInstalled(installed, server, out)
          /\ logs' = QInstallLog(
                        RunCommandLog(logs, out, LastSegment(server.package), verbose),
                        server, out)
    /\ idx' = idx + 1
    /\ UNCHANGED <<inputs, machine, variant, pc, verbose, projects, keys,
                   original_dir, config, result, exitCode,
                   runs, preRun, bk, entryCwd, probe, backupLog>>

\* install_mcp_servers returns (installed, mcp_dir); run() steps 6 and the
\* json.dumps of step 7.
QGenerate ==
    /\ pc = "q_install_loop"
    /\ idx > Len(QuickServers)
    /\ config' = GenerateClaudeConfig(installed, projects, keys)
    /\ pc' = "q_write"
    /\ UNCHANGED <<inputs, machine, variant, verbose, projects, keys, installed, idx,
                   logs, original_dir, result, exitCode, raises, observed>>

\* run() step 7: config_file.write_text(text) opens the file for writing,
\* which truncates it.
QWriteOpen ==
    /\ pc = "q_write"
    /\ \E io \in IoOutcomes("open") :
          IF io = "ok"
          THEN /\ target' = Truncated
               /\ pc' = "q_write_text"
               /\ UNCHANGED <<result, exitCode>>
          ELSE /\ UNCHANGED target
               /\ Finish("raised")
    /\ UNCHANGED <<inputs, backups, cwd, pkgJson, workspace, clock,
                   variant, verbose, projects, keys, installed, idx, logs,
                   original_dir, config, raises, observed>>

\* run() step 7: write_text writes the serialized text.
QWriteText ==
    /\ pc = "q_write_text"
    /\ \E io \in IoOutcomes("write") :
          IF io = "ok"
          THEN /\ target' = JsonText(config)
               /\ pc' = "q_helpers"
               /\ UNCHANGED <<result, exitCode>>
          ELSE /\ target' \in {Truncated, Partial}
               /\ Finish("raised")
    /\ UNCHANGED <<inputs, backups, cwd, pkgJson, workspace, clock,
                   variant, verbose, projects, keys, installed, idx, logs,
                   original_dir, config, raises, observed>>

\* run() step 8 and the final report; run() returns None.
QFinish ==
    /\ pc = "q_helpers"
    /\ workspace' = TRUE
    /\ Finish("None")
    /\ UNCHANGED <<inputs, target, backups, cwd, pkgJson, clock,
                   variant, verbose, projects, keys, installed, idx, logs,
                   original_dir, config, raises, observed>>

NextDetect ==
    \/ QDetectEnv
    \/ QDetectGit
    \/ QDetectFile

NextQuickstart ==
    \/ QCheckDependencies
    \/ QProjects
    \/ NextDetect
    \/ QBackup
    \/ QInstallEnter
    \/ QInstallAttempt
    \/ QGenerate
    \/ QWriteOpen
    \/ QWriteText
    \/ QFinish

Next ==
    \/ \E v \in Variants : StartRun(v)
    \/ MainTest
    \/ NextInstaller
    \/ NextQuickstart

\* One run of an entry point from every starting state of Init.
Spec == Init /\ [][Next]_vars

\* Repeated runs: up to MaxRuns runs of either entry point, one after the
\* other, on a machine where nothing or one thing can fail.
InitRuns ==
    /\ \E e \in RunEnvirons : environ = e[1] /\ gitOut = e[2] /\ dotfiles = e[3]
    /\ flaky \in {{}} \cup {{x} : x \in Fallible}
    /\ maxRuns = MaxRuns
    /\ InitMachine
    /\ InitObject
    /\ variant = "installer"
    /\ pc = "idle"

SpecRuns == InitRuns /\ [][Next]_vars

\* ---------------------------------------------- detect_api_keys on its own
\* What an environment variable can hold: nothing, the empty string, a token.
EnvValue(name, c) == <<Unset, "", Token(name)>>[c]

GitAnswers ==
    { GitResult("nonzero", FALSE, ""), GitResult("raise", FALSE, ""),
      GitResult("ok", TRUE, ""), GitResult("ok", TRUE, "ghp_git") }

FileToken(i) == <<"tok_bashrc", "tok_zshrc", "tok_env", "tok_hosts">>[i]

OnlyMatch(k, m) == [x \in PatternKeys |-> IF x = k THEN m ELSE NoMatch]

\* The states of config_files[i] as far as key k goes: missing, unreadable,
\* text without the assignment, text assigning a quoted empty value, text
\* assigning a value (quoted in .zshrc, bare in the others).
FileState(k, i, c) ==
    << MissingFile, UnreadableFile, TextFile(OnlyMatch(k, NoMatch)),
       TextFile(OnlyMatch(k, Match(TRUE, ""))),
       TextFile(OnlyMatch(k, Match(i = 2, FileToken(i)))) >>[c]

FileChoices(k) == IF k \in PatternKeys THEN 1 .. 5 ELSE 1 .. 3

\* The alias of key k that a variable is, or 0.
AliasIndex(k, name) ==
    LET hits == {i \in DOMAIN EnvMappings[k] : EnvMappings[k][i] = name}
    IN  IF hits = {} THEN 0 ELSE CHOOSE i \in hits : TRUE

\* The environments in which the sources of one key k hold anything.
EnvironsOf(k) ==
    { [n \in EnvNames |->
          IF AliasIndex(k, n) = 0 THEN Unset ELSE EnvValue(n, c[AliasIndex(k, n)])] :
      c \in [DOMAIN EnvMappings[k] -> 1 .. 3] }

DotfilesOf(k) ==
    { [i \in DOMAIN ConfigFiles |-> FileState(k, i, c[i])] :
      c \in [DOMAIN ConfigFiles -> FileChoices(k)] }

\* detect_api_keys is entered with any content of the sources of one key.
InitCred ==
    /\ \E k \in CredKeys :
          /\ environ \in EnvironsOf(k)
          /\ gitOut \in (IF k = "github_token" THEN GitAnswers ELSE {NoGit})
          /\ dotfiles \in DotfilesOf(k)
    /\ flaky = {}
    /\ maxRuns = 1
    /\ InitMachine
    /\ target = Absent
    /\ InitObject
    /\ variant = "quickstart"
    /\ pc = "q_detect_env"

SpecCred == InitCred /\ [][NextDetect]_vars

\* ============================================================== claims
\* What the claims below speak of.
Catalog(v) == IF v = "installer" THEN InstallerServers ELSE QuickServers

\* The name a catalog module is recorded under by the install operation.
ModuleName(v, i) ==
    IF v = "installer" THEN LastSegment(InstallerServers[i]) ELSE QuickServers[i].name

IsRequired(v, i) == v = "installer" \/ QuickServers[i].required

InLoop == pc \in {"i_install_loop", "q_install_loop"}

\* The install operation of the current run was entered and is over.
InstallLeft == entryCwd # NoDir /\ ~InLoop

\* The install operation of the current run returned to run().
InstallReturned ==
    /\ InstallLeft
    /\ Len(attempts) = Len(Catalog(variant))
    /\ attempts[Len(attempts)].out # "raise" \/ variant = "quickstart"

\* The descriptor key of a catalog module is the name of an installed module.
InstalledKey(key) ==
    /\ key.prefix = ""
    /\ \E i \in DOMAIN QuickServers :
          /\ QuickServers[i].name = key.name
          /\ IF variant = "installer"
             THEN LastSegment(QuickServers[i].package) \in Range(installed)
             ELSE key.name \in Range(installed)

\* C1: the runtime probe precedes every module install, and a run whose
\* probe reported the runtime absent installs nothing, backs nothing up and
\* leaves the descriptor file as it was.
C1_ProbeGatesRun ==
    /\ attempts # <<>> => probe # "none"
    /\ probe = "absent" =>
          /\ attempts = <<>>
          /\ bk.status = "none"
          /\ target = preRun

\* C2: when a run has changed the descriptor file and a descriptor existed
\* before the run, the backup copy of this run was completed and holds the
\* pre-run content; when the backup copy failed the file is as it was.
C2_BackupBeforeOverwrite ==
    /\ (target # preRun /\ Exists(preRun)) =>
          /\ bk.status = "ok"
          /\ bk.name \in DOMAIN backups
          /\ backups[bk.name] = preRun
    /\ bk.status = "failed" => target = preRun

\* A run of either entry point replaced a user's descriptor after backing it up.
C2_Witness ==
    /\ preRun = UserFile
    /\ target.kind = "json"
    /\ bk.status = "ok"
    /\ backups[bk.name] = UserFile

\* C3: every backup copy made so far went to a name no other copy used, and
\* the backup files still hold what was copied into them.
C3_BackupsNeverLost ==
    /\ \A i, j \in DOMAIN backupLog :
          i # j => backupLog[i].name # backupLog[j].name
    /\ \A i \in DOMAIN backupLog :
          /\ backupLog[i].name \in DOMAIN backups
          /\ backups[backupLog[i].name] = backupLog[i].content

\* C4: once the install operation is over (returned or raised), the working
\* directory is the one it was entered with.
C4_CwdRestored == InstallLeft => cwd = entryCwd

Placeholders ==
    {"PLACEHOLDER_GITHUB_TOKEN", "PLACEHOLDER_BRAVE_KEY",
     "REPLACE_WITH_GITHUB_TOKEN", "REPLACE_WITH_BRAVE_KEY"}

\* The credential a descriptor entry refers to: the env field, the key of
\* advanced-setup.py and the variable installer.py reads.
CredentialOf ==
    [n \in {"github", "brave-search"} |->
        IF n = "github"
        THEN [field |-> "GITHUB_PERSONAL_ACCESS_TOKEN", key |-> "github_token",
              var |-> "GITHUB_TOKEN"]
        ELSE [field |-> "BRAVE_API_KEY", key |-> "brave_key", var |-> "BRAVE_API_KEY"]]

\* The value the run resolved for a credential, NoneVal when no source had one.
ResolvedValue(c) ==
    IF variant = "installer" THEN EnvLookup(environ, c.var) ELSE keys[c.key]

\* C5: the entry of an installed module that needs a credential has the env
\* field of that credential, holding a placeholder text when no source had
\* a value and the resolved value otherwise; it is never null or missing.
C5_PlaceholderOrValue ==
    \A n \in DOMAIN CredentialOf :
        ServerKey(n) \in DOMAIN config =>
            LET e == config[ServerKey(n)]
                c == CredentialOf[n]
            IN  /\ "env" \in DOMAIN e
                /\ c.field \in DOMAIN e.env
                /\ e.env[c.field] # NoneVal
                /\ IF ResolvedValue(c) = NoneVal
                   THEN e.env[c.field] \in Placeholders
                   ELSE e.env[c.field] = ResolvedValue(c)

\* The sources of detect_api_keys consulted so far.
EnvDone == pc \in {"q_detect_git", "q_detect_files", "q_backup"}
GitDone == pc \in {"q_detect_files", "q_backup"}
FilesDone ==
    IF pc = "q_detect_files" THEN idx - 1
    ELSE IF pc = "q_backup" THEN Len(ConfigFiles) ELSE 0

Lowest(S) == CHOOSE i \in S : \A j \in S : i <= j

\* The non-empty value a source holds for key k, NoneVal when it has none.
EnvYield(k) ==
    LET set == {i \in DOMAIN EnvMappings[k] : environ[EnvMappings[k][i]] \notin {Unset, ""}}
    IN  IF set = {} THEN NoneVal ELSE environ[EnvMappings[k][Lowest(set)]]

GitYield(k) ==
    IF k = "github_token" /\ gitOut.out = "ok" /\ gitOut.core # ""
    THEN gitOut.core ELSE NoneVal

FileYield(k, i) ==
    IF /\ k \in PatternKeys
       /\ dotfiles[i].state = "text"
       /\ dotfiles[i].match[k].found
       /\ dotfiles[i].match[k].core # ""
    THEN dotfiles[i].match[k].core ELSE NoneVal

\* The value of the highest ranked source, among those consulted so far,
\* that holds a non-empty value for key k.
FirstYield(k) ==
    IF EnvDone /\ EnvYield(k) # NoneVal THEN EnvYield(k)
    ELSE IF GitDone /\ GitYield(k) # NoneVal THEN GitYield(k)
    ELSE LET set == {i \in 1 .. FilesDone : FileYield(k, i) # NoneVal}
         IN  IF set = {} THEN NoneVal ELSE FileYield(k, Lowest(set))

\* C6: at every point of detect_api_keys each key holds the value of the
\* highest ranked source consulted so far that has a non-empty value
\* (environment aliases in list order, then git config, then the config
\* files in list order), and no value while none of them has one; so an
\* alias set to a value wins over git config and the files, and a value once
\* found is not changed by a lower ranked source.
C6_FirstMatchWins ==
    pc \in {"q_detect_env", "q_detect_git", "q_detect_files", "q_backup"} =>
        \A k \in CredKeys :
            IF FirstYield(k) # NoneVal
            THEN keys[k] = FirstYield(k)
            ELSE Falsy(keys[k])

\* Detection ended with the second alias winning over an empty first alias,
\* a git config token and a token in .bashrc.
C6_Witness ==
    /\ pc = "q_backup"
    /\ environ["GITHUB_TOKEN"] = ""
    /\ environ["GH_TOKEN"] = Token("GH_TOKEN")
    /\ GitYield("github_token") # NoneVal
    /\ FileYield("github_token", 1) # NoneVal
    /\ keys["github_token"] = Token("GH_TOKEN")

CatalogIndex(v, name) ==
    CHOOSE i \in DOMAIN Catalog(v) : ModuleName(v, i) = name

ErrorAbout(i) ==
    \E e \in Range(logs.errors) :
        e.subject \in {ModuleName(variant, i),
                       LastSegment(IF variant = "installer" THEN InstallerServers[i]
                                   ELSE QuickServers[i].package)}

WarningAbout(i) ==
    \E e \in Range(logs.warnings) :
        e.kind = "Optional server skipped" /\ e.subject = ModuleName(variant, i)

C9_OnlyInstalledKeys == \A key \in DOMAIN config : InstalledKey(key)

\* The key of an entry advanced-setup.py adds for a detected project.
ProjectEntryKey(key) ==
    /\ variant = "quickstart"
    /\ key.prefix = "project-"
    /\ "filesystem" \in Range(installed)
    /\ \E i \in DOMAIN Take(projects, 3) : projects[i].name = key.name

\* The descriptor key the i-th catalog module would be written under.
ModuleKey(v, i) ==
    IF v = "quickstart" THEN ServerKey(QuickServers[i].name)
    ELSE LET j == CHOOSE j \in DOMAIN QuickServers :
                      LastSegment(QuickServers[j].package) = ModuleName(v, i)
         IN  ServerKey(QuickServers[j].name)

\* C9 as amended: every key of the descriptor is the name of an installed
\* module or, in advanced-setup.py with filesystem installed, project-<name>
\* of one of the first three detected projects; a module whose install
\* failed has no entry.
C9_InstalledOrProjectKeys ==
    /\ \A key \in DOMAIN config : InstalledKey(key) \/ ProjectEntryKey(key)
    /\ \A i \in DOMAIN attempts :
          attempts[i].out # "ok" => ModuleKey(variant, i) \notin DOMAIN config

\* A descriptor with module entries and project entries, after a failed install.
C9_Witness ==
    /\ \E key \in DOMAIN config : key.prefix = "project-"
    /\ \E key \in DOMAIN config : key.prefix = ""
    /\ \E i \in DOMAIN attempts : attempts[i].out = "nonzero"

\* C10: the descriptor file holds the complete pre-run content or the
\* complete new descriptor, at every point of a run.
C10_TargetNeverPartial == target = preRun \/ target = JsonText(config)

\* The steps of run() that persist something: the backup copy and the write
\* of the descriptor.
PersistencePcs ==
    {"i_backup", "q_backup", "i_write", "i_write_dump", "q_write", "q_write_text"}

\* C11: a run ends with a non-zero exit code only when the runtime probe
\* found the runtime absent or the step that ended it is the backup or the
\* write of the descriptor; so a run with the runtime present that wrote the
\* descriptor exits 0 even when some installs failed.
C11_NonZeroOnlyWhenFatal ==
    [][(pc # "done" /\ pc' = "done" /\ exitCode' # 0) =>
          (probe' = "absent" \/ pc \in PersistencePcs)]_vars

\* The current run wrote the complete new descriptor.
DescriptorWritten ==
    /\ pc = "done"
    /\ result \in {"True", "False", "None"}
    /\ InstallReturned
    /\ variant = "installer" => installed # <<>>
    /\ target = JsonText(config)

\* C12 as claimed: a finished run has created a backup exactly when a
\* descriptor existed before it and it wrote the descriptor.
C12_BackupIffWritten ==
    (pc = "done" /\ result \notin {"none", "test"}) =>
        (bk.status = "ok" <=> (preRun # Absent /\ DescriptorWritten))

\* The backup step of the current run is over.
BackupStepDone ==
    /\ pc \notin {"idle", "i_check", "i_backup", "q_deps", "q_projects",
                  "q_detect_env", "q_detect_git", "q_detect_files", "q_backup"}
    /\ result \notin {"none", "test"}
    /\ variant = "installer" => probe = "present"

\* The backups the current run has logged.
BackupsOfRun == {i \in DOMAIN backupLog : backupLog[i].run = runs}

\* C12 as amended: a run copies a backup exactly when a descriptor exists at
\* the target path when it reaches its backup step, which is before the
\* installs and whether or not the run later writes the descriptor; a run
\* that found no descriptor, or ended before the backup step, has none; a
\* completed backup holds the descriptor as it was when the run started (for
\* a second run: as the first run left it); a failed copy ends the run with
\* the descriptor untouched.
C12_BackupIffDescriptorAtBackup ==
    /\ ~BackupStepDone => bk.status = "none" /\ (runs > 0 => BackupsOfRun = {})
    /\ BackupStepDone =>
          /\ bk.status = "none" <=> preRun = Absent
          /\ bk.status = "ok" <=> BackupsOfRun # {}
          /\ bk.status = "ok" =>
                /\ Cardinality(BackupsOfRun) = 1
                /\ bk.name \in DOMAIN backups
                /\ backups[bk.name] = preRun
          /\ bk.status = "failed" =>
                pc = "done" /\ result = "raised" /\ target = preRun

\* A second run backed up the descriptor the first run wrote.
C12_Witness ==
    /\ runs = 2
    /\ pc = "done"
    /\ bk.status = "ok"
    /\ preRun.kind = "json"
    /\ backups[bk.name] = preRun

\* C13: a step that tries a module's install and finds it failed (non-zero
\* exit, time-out, launch error) does not end the run: the module is not
\* recorded as installed and the loop goes on to the next module.
C13_InstallNeverRaises ==
    [][(/\ Len(attempts') = Len(attempts) + 1
        /\ attempts'[Len(attempts')].out # "ok") =>
          /\ pc' = pc
          /\ idx' = idx + 1
          /\ attempts'[Len(attempts')].name \notin Range(installed')]_vars

\* C14: a run of installer.py that found the runtime, entered the install
\* operation and installed no module records the error, returns False, has
\* generated no descriptor, created no workspace and left the descriptor
\* file as it was before the run.
C14_NothingInstalledNothingWritten ==
    (/\ variant = "installer"
     /\ pc = "done"
     /\ probe = "present"
     /\ entryCwd # NoDir
     /\ installed = <<>>) =>
        /\ result = "False"
        /\ \E e \in Range(logs.errors) : e.kind = "No servers installed successfully"
        /\ config = EmptyConfig
        /\ ~workspace
        /\ target = preRun

====
